---- MODULE Spec2Model ----
(***************************************************************************)
(* docs/make_chapters.py of rust-lv2: the literate-documentation generator. *)
(* A File reads its raw lines, make_lines classifies every raw line as a    *)
(* CommentLine or a CodeLine, lines_to_blocks groups the lines into Block   *)
(* and CodeBlock objects, and File.__str__ renders the blocks.              *)
(*                                                                          *)
(* Strings are sequences of one-character strings.  Objects that the code   *)
(* mutates (the blocks) live in a heap and are named by their index, so     *)
(* that a yielded block and the accumulator can alias as they do in Python. *)
(***************************************************************************)
EXTENDS Integers, Sequences, FiniteSets, TLC

\* ------------------------------------------------------------------ bounds
\* Largest number of raw lines of a generated multi-line file.
MaxLines == 4
\* Largest number of characters before the line terminator of a generated
\* single-line file.
MaxLineLen == 4

\* --------------------------------------------------------------- characters
NL == "\n"
\* Characters that Python's \s matches, as far as the inputs use them.
WhiteSpace == {" ", "\t", NL}
IsSpace(c) == c \in WhiteSpace

\* Alphabet of the generated single-line files.
Chars == {" ", "\t", "#", "/", "x"}

Rs == <<"r", "s">>
Py == <<"p", "y">>

\* The value None of last_block before the first line.  Block objects are
\* named by their index in the heap, which starts at 1.
None == 0

Max(S) == CHOOSE m \in S : \A n \in S : n <= m

\* ----------------------------------------------------------- make_lines
\* Number of consecutive characters of s, from position k on, that satisfy \s.
RECURSIVE SpaceRun(_, _)
SpaceRun(s, k) ==
    IF k <= Len(s) /\ IsSpace(s[k]) THEN 1 + SpaceRun(s, k + 1) ELSE 0

\* Number of consecutive characters of s, from position k on, other than \n.
RECURSIVE NonNewlineRun(_, _)
NonNewlineRun(s, k) ==
    IF k <= Len(s) /\ s[k] # NL THEN 1 + NonNewlineRun(s, k + 1) ELSE 0

\* The literal m occurs in s at position k.
LiteralAt(s, k, m) ==
    /\ k + Len(m) - 1 <= Len(s)
    /\ SubSeq(s, k, k + Len(m) - 1) = m

\* Faulty variant of comment_indicator: the language is ignored.
CommentIndicatorAlwaysHash(lang) == <<"#">>

\* The literal between \s* and \s* in comment_indicator_re.
comment_indicator(lang) == IF lang = Rs THEN <<"/", "/">> ELSE <<"#">>

\* Faulty variant of GroupStart: the whitespace after the indicator is kept.
GroupStartKeepsSpace(s, k, m) == k + Len(m)

\* Where group 1 starts once the indicator that begins at position k of s
\* has been read.
GroupStart(s, k, m) == (k + Len(m)) + SpaceRun(s, k + Len(m))

\* comment_indicator_re.match(line): <<>> for no match, <<group 1>> otherwise.
\* The leading \s* is greedy and backtracks: of the whitespace prefixes after
\* which the indicator occurs, the longest is taken.  The second \s* is greedy
\* and [^\n]* can match nothing, so there is no further backtracking.
comment_indicator_re(line, lang) ==
    LET m     == comment_indicator(lang)
        n     == SpaceRun(line, 1)
        cands == {k \in 0..n : LiteralAt(line, k + 1, m)}
    IN  IF cands = {} THEN <<>>
        ELSE LET q == GroupStart(line, Max(cands) + 1, m)
             IN  <<SubSeq(line, q, q + NonNewlineRun(line, q) - 1)>>

\* Faulty variant of clean_line_re: a pattern that needs one character, so
\* that empty code lines are removed.
CleanLineNonEmpty(line) ==
    IF NonNewlineRun(line, 1) = 0 THEN <<>>
    ELSE <<SubSeq(line, 1, NonNewlineRun(line, 1))>>

\* clean_line_re.match(line): the pattern is a group of any number of
\* characters other than "\n", so it always matches.
clean_line_re(line) == <<SubSeq(line, 1, NonNewlineRun(line, 1))>>

CommentLine(content) == [type |-> "CommentLine", content |-> content]
CodeLine(content) == [type |-> "CodeLine", content |-> content]

\* One iteration of the for loop of make_lines: the Lines it yields for one
\* raw line (none or one).
make_lines_body(line, lang) ==
    LET is_comment == comment_indicator_re(line, lang)
    IN  IF is_comment # <<>> THEN <<CommentLine(is_comment[1])>>
        ELSE LET cleaned_line == clean_line_re(line)
             IN  IF cleaned_line # <<>> THEN <<CodeLine(cleaned_line[1])>>
                 ELSE <<>>

\* ------------------------------------------------------------- rendering
\* sep.join(ss)
RECURSIVE join(_, _)
join(sep, ss) ==
    IF ss = <<>> THEN <<>>
    ELSE IF Len(ss) = 1 THEN ss[1]
    ELSE ss[1] \o sep \o join(sep, Tail(ss))

\* Line.__str__
LineStr(l) == l.content

Contents(ls) == [k \in 1..Len(ls) |-> LineStr(ls[k])]

\* Block.__str__
BlockStr(b) == join(<<NL>>, Contents(b.lines))

\* The character U+0060, which a TLA+ string cannot hold, written by name.
BackTick == "backtick"

Fence == <<BackTick, BackTick, BackTick>>

\* Faulty variant of CodeBlockStr: no blank line around the fences.
CodeBlockStrNoBlankLines(b) ==
    Fence \o b.language \o <<NL>> \o join(<<NL>>, Contents(b.lines))
        \o <<NL>> \o Fence

\* CodeBlock.__str__
CodeBlockStr(b) ==
    <<NL>> \o Fence \o b.language \o <<NL>> \o join(<<NL>>, Contents(b.lines))
        \o <<NL>> \o Fence \o <<NL>>

NoneStr == <<"N", "o", "n", "e">>

\* str(x) for an element x of File.blocks: a heap index or None.
str(h, x) ==
    IF x = None THEN NoneStr
    ELSE IF h[x].class = "CodeBlock" THEN CodeBlockStr(h[x])
    ELSE BlockStr(h[x])

\* ------------------------------------------------------------------ inputs
LibRsPath == <<"a", "m", "p", "/", "s", "r", "c", "/", "l", "i", "b", ".", "r", "s">>
CargoPath == <<"a", "m", "p", "/", "C", "a", "r", "g", "o", ".", "t", "o", "m", "l">>

\* The calls File(path, language): language is <<>> when the argument is
\* left out (None) and <<tag>> when the caller gives a tag.
Requests ==
    { [path |-> LibRsPath, language |-> <<>>],
      [path |-> CargoPath, language |-> <<>>],
      [path |-> LibRsPath, language |-> <<Py>>] }

IntroHash == <<"#", " ", "i", "n", "t", "r", "o", " ", "t", "e", "x", "t", NL>>
IntroSlash == <<"/", "/", " ", "i", "n", "t", "r", "o", " ", "t", "e", "x", "t", NL>>
FnMain == <<"f", "n", " ", "m", "a", "i", "n", "(", ")", " ", "{", "}", NL>>
FnDone == <<"f", "n", " ", "d", "o", "n", "e", "(", ")", " ", "{", "}", NL>>
HelloRaw == <<" ", " ", "#", " ", "h", "e", "l", "l", "o", " ", "w", "o", "r", "l", "d", NL>>
LetRaw == <<" ", " ", " ", " ", "l", "e", "t", " ", "x", " ", "=", " ", "1", ";", NL>>
NoteRaw == <<"/", "/", " ", "n", "o", "t", "e", NL>>

\* Files taken from the documented examples.
ExampleFiles ==
    { <<IntroHash, FnMain, FnDone>>, <<IntroSlash, FnMain, FnDone>>,
      <<HelloRaw>>, <<LetRaw>>, <<NoteRaw>> }

\* Raw lines of the generated multi-line files: an empty line, a code line,
\* a "#" comment and a "//" comment.
TerminatedLines ==
    { <<NL>>, <<"x", NL>>, <<"#", "x", NL>>, <<"/", "/", "x", NL>> }

\* readlines() leaves the last line of a file without "\n" when the file does
\* not end in one; it never returns an empty string.
UnterminatedLines == { <<"x">>, <<"#", "x">>, <<"/", "/", "x">> }

MultiLineFiles ==
    {<<>>} \cup
    UNION { { f \o <<l>> : f \in [1..k -> TerminatedLines],
                           l \in TerminatedLines \cup UnterminatedLines }
            : k \in 0..(MaxLines - 1) }

LineBodies == UNION { [1..k -> Chars] : k \in 0..MaxLineLen }

SingleLineFiles ==
    { <<b \o t>> : b \in LineBodies, t \in {<<>>, <<NL>>} } \ { << <<>> >> }

Files == MultiLineFiles \cup SingleLineFiles \cup ExampleFiles

\* ------------------------------------------------------------ File.__init__
\* Path.suffix of pathlib: the final component from its last "." on, or ""
\* when it has none or only a leading one.
Suffix(p) ==
    LET slashes == {k \in 1..Len(p) : p[k] = "/"}
        start   == IF slashes = {} THEN 1 ELSE Max(slashes) + 1
        dots    == {k \in (start + 1)..Len(p) : p[k] = "."}
    IN  IF dots = {} \/ Max(dots) = Len(p) THEN <<>>
        ELSE SubSeq(p, Max(dots), Len(p))

\* The language of the source: the argument, or group 1 of
\* re.match(r".([^\n]*)", path.suffix).
FileLanguage(req) ==
    IF req.language # <<>> THEN req.language[1]
    ELSE LET sfx == Suffix(req.path)
         IN  SubSeq(sfx, 2, 1 + NonNewlineRun(sfx, 2))

\* ------------------------------------------------------------------- state
VARIABLES
    path,        \* File.path
    language,    \* the language of the source
    raw_lines,   \* input.readlines()
    ri,          \* make_lines: index of the next raw line of its for loop
    lines,       \* the Lines that lines_to_blocks has received, in order
    heap,        \* the Block and CodeBlock objects created so far
    last_block,  \* lines_to_blocks: its accumulator, a heap index or None
    blocks,      \* what lines_to_blocks has yielded: File.blocks
    pc,          \* "init": no File yet; "loop": in the for loop of
                 \* lines_to_blocks; "blocks": File built;
                 \* "rendered": str(file) computed
    parts,       \* File.__str__: map(str, self.blocks)
    output       \* File.__str__: its result

vars == <<path, language, raw_lines, ri, lines, heap, last_block, blocks, pc,
          parts, output>>

\* Before File(path, language) is called.
Init ==
    /\ path = <<>>
    /\ language = <<>>
    /\ raw_lines = <<>>
    /\ ri = 1
    /\ lines = <<>>
    /\ heap = <<>>
    /\ last_block = None
    /\ blocks = <<>>
    /\ pc = "init"
    /\ parts = <<>>
    /\ output = <<>>

\* File.__init__ up to the calls of make_lines and lines_to_blocks, which
\* only create the generators: the path is stored, the language determined
\* and the raw lines read.
Open ==
    /\ pc = "init"
    /\ \E req \in Requests :
          /\ path' = req.path
          /\ language' = FileLanguage(req)
    /\ raw_lines' \in Files
    /\ pc' = "loop"
    /\ UNCHANGED <<ri, lines, heap, last_block, blocks, parts, output>>

\* ---------------------------------------------------------- lines_to_blocks
\* make_lines resumed at raw line j: the index of the raw line at which it
\* next yields, or Len(raw_lines) + 1 when it returns without yielding.
RECURSIVE NextYield(_)
NextYield(j) ==
    IF j > Len(raw_lines) THEN j
    ELSE IF make_lines_body(raw_lines[j], language) # <<>> THEN j
    ELSE NextYield(j + 1)

\* `for line in lines`: make_lines, resumed, yields next at raw line j.
YieldsAt(j) == j = NextYield(ri)

\* `for line in lines`: make_lines returns without another Line.
Exhausted == NextYield(ri) > Len(raw_lines)

\* The Line that make_lines yields at raw line j.
line(j) == make_lines_body(raw_lines[j], language)[1]

\* The for loop takes the Line yielded at raw line j.
TakeLine(j) ==
    /\ ri' = j + 1
    /\ lines' = Append(lines, line(j))

Block == [class |-> "Block", lines |-> <<>>]
CodeBlock(lang) == [class |-> "CodeBlock", language |-> lang, lines |-> <<>>]

add_line(b, l) == [b EXCEPT !.lines = Append(@, l)]

\* Faulty variant of TypeDiffers: every Line starts a new block.
TypeAlwaysDiffers(b, l) == TRUE

\* type(last_block.lines[-1]) != type(line)
TypeDiffers(b, l) == b.lines[Len(b.lines)].type # l.type

\* Faulty variant of NewBlockFor: code starts a plain Block too.
NewBlockAlwaysPlain(l) == Block

\* The block a new run starts with.
NewBlockFor(l) == IF l.type = "CodeLine" THEN CodeBlock(language) ELSE Block

\* last_block is None: the first Line starts the first block.
FirstLine ==
    /\ pc = "loop"
    /\ last_block = None
    /\ \E j \in ri..Len(raw_lines) :
          /\ YieldsAt(j)
          /\ TakeLine(j)
          /\ heap' = Append(heap, add_line(NewBlockFor(line(j)), line(j)))
    /\ last_block' = Len(heap) + 1
    /\ UNCHANGED <<path, language, raw_lines, blocks, pc, parts, output>>

\* Faulty variant of KindChange: last_block is yielded and the Line is then
\* added to that same object.
KindChangeKeepsBlock ==
    /\ pc = "loop"
    /\ last_block # None
    /\ \E j \in ri..Len(raw_lines) :
          /\ YieldsAt(j)
          /\ TypeDiffers(heap[last_block], line(j))
          /\ TakeLine(j)
          /\ heap' = [heap EXCEPT ![last_block] = add_line(@, line(j))]
    /\ blocks' = Append(blocks, last_block)
    /\ UNCHANGED <<path, language, raw_lines, last_block, pc, parts, output>>

\* The Line's type differs from the block's: yield last_block, start a new
\* block and add the Line to it.
KindChange ==
    /\ pc = "loop"
    /\ last_block # None
    /\ \E j \in ri..Len(raw_lines) :
          /\ YieldsAt(j)
          /\ TypeDiffers(heap[last_block], line(j))
          /\ TakeLine(j)
          /\ heap' = Append(heap, add_line(NewBlockFor(line(j)), line(j)))
    /\ blocks' = Append(blocks, last_block)
    /\ last_block' = Len(heap) + 1
    /\ UNCHANGED <<path, language, raw_lines, pc, parts, output>>

\* The Line's type is the block's: add the Line to last_block.
SameKind ==
    /\ pc = "loop"
    /\ last_block # None
    /\ \E j \in ri..Len(raw_lines) :
          /\ YieldsAt(j)
          /\ ~TypeDiffers(heap[last_block], line(j))
          /\ TakeLine(j)
          /\ heap' = [heap EXCEPT ![last_block] = add_line(@, line(j))]
    /\ UNCHANGED <<path, language, raw_lines, last_block, blocks, pc, parts,
                   output>>

\* Faulty variant of Flush: the generator returns without the final yield.
FlushDropsLast ==
    /\ pc = "loop" /\ Exhausted
    /\ ri' = NextYield(ri)
    /\ pc' = "blocks"
    /\ UNCHANGED <<path, language, raw_lines, lines, heap, last_block, blocks,
                   parts, output>>

\* The input is exhausted: `yield last_block` after the loop, whatever
\* last_block is, and list() returns File.blocks.
Flush ==
    /\ pc = "loop" /\ Exhausted
    /\ ri' = NextYield(ri)
    /\ blocks' = Append(blocks, last_block)
    /\ pc' = "blocks"
    /\ UNCHANGED <<path, language, raw_lines, lines, heap, last_block, parts,
                   output>>

\* ------------------------------------------------------------ File.__str__
Heading(p) == <<"#", "#", "#", " ">> \o p \o <<NL, NL>>

Render ==
    /\ pc = "blocks"
    /\ parts' = [k \in 1..Len(blocks) |-> str(heap, blocks[k])]
    /\ output' = Heading(path) \o join(<<NL>>, parts')
    /\ pc' = "rendered"
    /\ UNCHANGED <<path, language, raw_lines, ri, lines, heap, last_block,
                   blocks>>

Next == Open \/ FirstLine \/ KindChange \/ SameKind \/ Flush \/ Render

Spec == Init /\ [][Next]_vars

\* The pipeline is one synchronous call: every enabled step is taken.
FairSpec == Spec /\ WF_vars(Next)

\* ================================================================ properties
Done == pc \in {"blocks", "rendered"}

\* The Lines of the Blocks among the yielded values xs, concatenated in order.
\* None is no Block and has no Lines.
RECURSIVE ConcatLines(_, _)
ConcatLines(h, xs) ==
    IF xs = <<>> THEN <<>>
    ELSE (IF xs[1] = None THEN <<>> ELSE h[xs[1]].lines)
             \o ConcatLines(h, Tail(xs))

\* The kind of Line a block of this class holds.
LineTypeOf(b) == IF b.class = "CodeBlock" THEN "CodeLine" ELSE "CommentLine"

\* C1 (Partition): once lines_to_blocks has returned, the Lines of the yielded
\* Blocks, concatenated in the order of the yields, are exactly the Lines it
\* received, in the order it received them.
Partition == Done => ConcatLines(heap, blocks) = lines

PartitionWitness ==
    /\ Done
    /\ Len(blocks) >= 3
    /\ \E k \in 1..Len(blocks) : Len(heap[blocks[k]].lines) >= 2
    /\ ConcatLines(heap, blocks) = lines

\* C2 (Maximality): two blocks yielded one after the other never have the same
\* kind, every Line of a block has the block's kind, and so the Line that
\* ends a block and the Line that begins the next differ in kind.
Maximality ==
    /\ \A k \in 1..Len(blocks) :
          blocks[k] # None =>
             \A j \in 1..Len(heap[blocks[k]].lines) :
                heap[blocks[k]].lines[j].type = LineTypeOf(heap[blocks[k]])
    /\ \A k \in 1..(Len(blocks) - 1) :
          LET a == heap[blocks[k]]
              b == heap[blocks[k + 1]]
          IN  /\ a.class # b.class
              /\ a.lines[Len(a.lines)].type # b.lines[1].type

MaximalityWitness ==
    /\ Done
    /\ Len(blocks) >= 3
    /\ Len(heap[blocks[2]].lines) >= 2
    /\ heap[blocks[1]].class # heap[blocks[2]].class

\* C3 (Non-emptiness): nothing yielded is None or a block without Lines, and
\* when lines_to_blocks received no Line it yields nothing.
NonEmptiness ==
    /\ \A k \in 1..Len(blocks) :
          blocks[k] # None /\ heap[blocks[k]].lines # <<>>
    /\ (Done /\ lines = <<>>) => blocks = <<>>

BeginsWithMarker(s, m) ==
    \E n \in 0..Len(s) :
       /\ \A j \in 1..n : IsSpace(s[j])
       /\ n + Len(m) <= Len(s)
       /\ \A j \in 1..Len(m) : s[n + j] = m[j]

\* C5 (Marker selection): a raw line becomes a CommentLine exactly when it is
\* optional whitespace followed by "//" for the language "rs", and by "#" for
\* every other language; otherwise it becomes a CodeLine.  "// note\n" is a
\* comment under "rs" and code under "py".
MarkerSelection ==
    \A k \in 1..Len(lines) :
       /\ lines[k].type \in {"CommentLine", "CodeLine"}
       /\ language = Rs =>
             (lines[k].type = "CommentLine"
                 <=> BeginsWithMarker(raw_lines[k], <<"/", "/">>))
       /\ language # Rs =>
             (lines[k].type = "CommentLine"
                 <=> BeginsWithMarker(raw_lines[k], <<"#">>))
       /\ (raw_lines[k] = NoteRaw /\ language = Rs)
             => lines[k].type = "CommentLine"
       /\ (raw_lines[k] = NoteRaw /\ language = Py)
             => lines[k].type = "CodeLine"

MarkerSelectionWitness ==
    /\ raw_lines = <<NoteRaw>>
    /\ language = Py
    /\ Len(lines) = 1
    /\ lines[1].type = "CodeLine"

IntroText == <<"i", "n", "t", "r", "o", " ", "t", "e", "x", "t">>
HelloText == <<"h", "e", "l", "l", "o", " ", "w", "o", "r", "l", "d">>
LetText == <<" ", " ", " ", " ", "l", "e", "t", " ", "x", " ", "=", " ", "1", ";">>
FnMainText == <<"f", "n", " ", "m", "a", "i", "n", "(", ")", " ", "{", "}">>
FnDoneText == <<"f", "n", " ", "d", "o", "n", "e", "(", ")", " ", "{", "}">>

\* "intro text\n\n```rs\nfn main() {}\nfn done() {}\n```\n"
ScenarioRendered ==
    IntroText \o <<NL, NL, BackTick, BackTick, BackTick, "r", "s", NL>>
        \o FnMainText \o <<NL>> \o FnDoneText
        \o <<NL, BackTick, BackTick, BackTick, NL>>

\* The two blocks of the scenario and their rendering joined by a newline.
ScenarioResult ==
    /\ Len(blocks) = 2
    /\ blocks[1] # None /\ blocks[2] # None
    /\ heap[blocks[1]].class = "Block"
    /\ Contents(heap[blocks[1]].lines) = <<IntroText>>
    /\ heap[blocks[2]].class = "CodeBlock"
    /\ Contents(heap[blocks[2]].lines) = <<FnMainText, FnDoneText>>
    /\ Len(parts) = 2
    /\ parts[1] \o <<NL>> \o parts[2] = ScenarioRendered

\* C6 as stated (Round-trip rendering scenario): the lines "# intro text\n",
\* "fn main() {}\n", "fn done() {}\n" under "rs" give a Prose block
\* "intro text" and a Code block of two lines, rendered and joined as
\* ScenarioRendered.
RoundTripScenarioAsStated ==
    (pc = "rendered" /\ raw_lines = <<IntroHash, FnMain, FnDone>>
        /\ language = Rs) => ScenarioResult

\* C6 (amended): the lines "// intro text\n", "fn main() {}\n",
\* "fn done() {}\n" under "rs" give a Prose block "intro text" and a Code
\* block of two lines, rendered and joined as ScenarioRendered.
RoundTripScenario ==
    (pc = "rendered" /\ raw_lines = <<IntroSlash, FnMain, FnDone>>
        /\ language = Rs) => ScenarioResult

RoundTripScenarioWitness ==
    /\ pc = "rendered"
    /\ raw_lines = <<IntroSlash, FnMain, FnDone>>
    /\ language = Rs
    /\ Len(parts) = 2

\* C7 (Line content extraction): a CommentLine's content is what follows the
\* leading whitespace, the marker and the whitespace after the marker, up to
\* the "\n"; a CodeLine's content is the raw line without its final "\n".
\* "  # hello world\n" under "py" gives "hello world" and "    let x = 1;\n"
\* under "rs" gives "    let x = 1;".
ContentExtraction ==
    \A k \in 1..Len(lines) :
       LET raw == raw_lines[k]
           c   == lines[k].content
           m   == IF language = Rs THEN <<"/", "/">> ELSE <<"#">>
       IN  /\ \A j \in 1..Len(c) : c[j] # NL
           /\ lines[k].type = "CommentLine" =>
                 /\ c = <<>> \/ ~IsSpace(c[1])
                 /\ \E a \in 0..Len(raw), b \in 0..Len(raw) :
                       /\ \A j \in 1..a : IsSpace(raw[j])
                       /\ a + Len(m) + b <= Len(raw)
                       /\ \A j \in 1..Len(m) : raw[a + j] = m[j]
                       /\ \A j \in 1..b : IsSpace(raw[a + Len(m) + j])
                       /\ \E t \in {<<>>, <<NL>>} :
                             SubSeq(raw, a + Len(m) + b + 1, Len(raw)) = c \o t
           /\ lines[k].type = "CodeLine" =>
                 \E t \in {<<>>, <<NL>>} : raw = c \o t
           /\ (raw = HelloRaw /\ language = Py) =>
                 lines[k] = [type |-> "CommentLine", content |-> HelloText]
           /\ (raw = LetRaw /\ language = Rs) =>
                 lines[k] = [type |-> "CodeLine", content |-> LetText]

ContentExtractionWitness ==
    /\ raw_lines = <<HelloRaw>>
    /\ language = Py
    /\ lines = <<[type |-> "CommentLine", content |-> HelloText]>>

\* The output lines of a rendered string: the pieces between its newlines.
RECURSIVE OutputLines(_)
OutputLines(s) ==
    LET n == NonNewlineRun(s, 1)
    IN  IF n = Len(s) THEN <<s>>
        ELSE <<SubSeq(s, 1, n)>> \o OutputLines(SubSeq(s, n + 2, Len(s)))

\* C8 (Block rendering layout): a plain Block renders as the output lines
\* c1..cn, its Lines' contents, and nothing else; a CodeBlock with language L
\* renders as the output lines "", "```L", c1, ..., cn, "```", "", that is, it
\* begins with "\n```L\n" and ends with "\n```\n" around the contents.
RenderLayout ==
    pc = "rendered" =>
       \A k \in 1..Len(blocks) :
          blocks[k] # None =>
             LET b == heap[blocks[k]]
                 c == [j \in 1..Len(b.lines) |-> b.lines[j].content]
             IN  IF b.class = "Block"
                 THEN OutputLines(parts[k]) = c
                 ELSE /\ OutputLines(parts[k])
                            = <<<<>>, Fence \o b.language>> \o c \o <<Fence, <<>>>>
                      /\ LET open  == <<NL>> \o Fence \o b.language \o <<NL>>
                             close == <<NL>> \o Fence \o <<NL>>
                         IN  /\ SubSeq(parts[k], 1, Len(open)) = open
                             /\ SubSeq(parts[k], Len(parts[k]) - Len(close) + 1,
                                       Len(parts[k])) = close

RenderLayoutWitness ==
    /\ pc = "rendered"
    /\ \E k \in 1..Len(blocks) :
          /\ blocks[k] # None
          /\ heap[blocks[k]].class = "CodeBlock"
          /\ Len(heap[blocks[k]].lines) >= 2
    /\ \E k \in 1..Len(blocks) :
          /\ blocks[k] # None
          /\ heap[blocks[k]].class = "Block"
          /\ Len(heap[blocks[k]].lines) >= 2

\* The rendered forms of the Blocks among the yielded values, in order.
RECURSIVE RenderedBlocks(_, _)
RenderedBlocks(xs, ps) ==
    IF xs = <<>> THEN <<>>
    ELSE (IF xs[1] = None THEN <<>> ELSE <<ps[1]>>)
             \o RenderedBlocks(Tail(xs), Tail(ps))

\* The rendered forms rs with one newline between consecutive ones.
RECURSIVE Separated(_)
Separated(rs) ==
    IF rs = <<>> THEN <<>>
    ELSE IF Len(rs) = 1 THEN rs[1]
    ELSE rs[1] \o <<NL>> \o Separated(Tail(rs))

\* C9 (File transcript rendering): the transcript is "### ", the path and
\* "\n\n", followed by the rendered forms of the file's Blocks in order, one
\* newline between consecutive ones and none after the last; for the path
\* "amp/src/lib.rs" it begins with "### amp/src/lib.rs\n\n".
TranscriptLayout ==
    pc = "rendered" =>
       /\ output = <<"#", "#", "#", " ">> \o path \o <<NL, NL>>
                      \o Separated(RenderedBlocks(blocks, parts))
       /\ path = LibRsPath =>
             SubSeq(output, 1, 20)
                = <<"#", "#", "#", " ", "a", "m", "p", "/", "s", "r", "c", "/",
                    "l", "i", "b", ".", "r", "s", NL, NL>>

\* The Lines of the accumulator while lines_to_blocks is in its loop.
Accumulated ==
    IF pc = "loop" /\ last_block # None THEN heap[last_block].lines ELSE <<>>

\* At every step the yielded blocks followed by the accumulator are the Lines
\* received so far; once the generator has returned on a non-empty input, the
\* last value yielded is the accumulator, which is a block and was yielded
\* exactly once.
SinglePassInvariant ==
    /\ ConcatLines(heap, blocks) \o Accumulated = lines
    /\ pc = "loop" => Len(lines) = ri - 1
    /\ (Done /\ raw_lines # <<>>) =>
          /\ lines # <<>>
          /\ last_block # None
          /\ blocks[Len(blocks)] = last_block
          /\ Cardinality({k \in 1..Len(blocks) : blocks[k] = last_block}) = 1

\* One step of the pipeline, once the file is read: the next raw line is read or none is; a Line is received exactly
\* when a raw line is read; a value is yielded only when the Line received
\* differs in kind from the accumulator or when the input is exhausted; what
\* was yielded before stays as it was.
SinglePassStep ==
    pc # "init" =>
       /\ ri' \in {ri, ri + 1}
       /\ ri' = ri + 1 => /\ ri <= Len(raw_lines)
                          /\ Len(lines') = Len(lines) + 1
                          /\ SubSeq(lines', 1, Len(lines)) = lines
       /\ ri' = ri => lines' = lines
       /\ raw_lines' = raw_lines
       /\ blocks' # blocks =>
             /\ Len(blocks') = Len(blocks) + 1
             /\ blocks'[Len(blocks')] = last_block
             /\ \/ /\ ri > Len(raw_lines)
                   /\ pc = "loop" /\ pc' # "loop"
                \/ /\ ri' = ri + 1
                   /\ last_block # None
                   /\ lines'[Len(lines')].type
                         # heap[last_block].lines[Len(heap[last_block].lines)].type
       /\ \A k \in 1..Len(blocks) :
             /\ blocks'[k] = blocks[k]
             /\ blocks[k] # None => heap'[blocks[k]] = heap[blocks[k]]

\* C10 (Single forward pass with final flush): every step of the run is a
\* SinglePassStep, every state satisfies SinglePassInvariant, and
\* lines_to_blocks returns on every input.
SinglePass ==
    /\ []SinglePassInvariant
    /\ [][SinglePassStep]_vars
    /\ <>Done

SinglePassWitness ==
    /\ Done
    /\ Len(raw_lines) >= 3
    /\ Len(blocks) >= 2
    /\ blocks[Len(blocks)] = last_block
    /\ Len(heap[last_block].lines) >= 2

====
